---- MODULE Spec2Model ----
(***************************************************************************)
(* Model of submit_SGE.py: class SubmitSGE, which submits shell commands   *)
(* to the Sun Grid Engine through qsub, throttled by polling qstat.        *)
(*                                                                         *)
(* Strings that the code searches or concatenates are sequences of         *)
(* one-character strings, so that str.find and "+" are computed.           *)
(* The controller is one sequential process; pc is its position.  The      *)
(* grid engine is the environment: jobs leave the queue at any time, and   *)
(* every qstat/qsub invocation has the outcomes the operating system and   *)
(* the engine can produce.                                                 *)
(***************************************************************************)
EXTENDS Integers, Sequences, FiniteSets

\* ------------------------------------------------------------------ bounds
\* Longest command_list handed to submit_job_list.
MaxCmds == 2
\* Most jobs of other batches in the queue when the controller starts.
MaxForeign == 1
\* Most get_jobs_in_queue polls explored within one submit_job_when_ready call.
MaxPolls == 3
\* Most get_jobs_in_queue_name polls explored in the drain loop.
MaxDrainPolls == 3
\* Largest maximum_jobs given to the constructor.
MaxCeiling == 2

\* ------------------------------------------------------- program constants
\* "remove the first 2 lines of table" (job_number -= 2)
HeaderRows == 2
\* time.sleep(1) after the qsub call
SubmitPause == 1
\* default of queue_update
QueueUpdateDefault == 60

\* ----------------------------------------------------------------- strings
Last(s) == s[Len(s)]

\* str.find(sub): lowest 0-based index where sub occurs in s, or -1.
Find(s, sub) ==
    LET hits == { k \in 0..(Len(s) - Len(sub)) :
                     SubSeq(s, k + 1, k + Len(sub)) = sub }
    IN  IF hits = {} THEN -1
        ELSE CHOOSE k \in hits : \A m \in hits : k <= m

\* Shell word splitting of a command line: maximal runs of non-blank characters.
RECURSIVE WordsFrom(_, _, _)
WordsFrom(s, k, cur) ==
    IF k > Len(s) THEN (IF cur = <<>> THEN <<>> ELSE <<cur>>)
    ELSE IF s[k] = " "
         THEN (IF cur = <<>> THEN <<>> ELSE <<cur>>) \o WordsFrom(s, k + 1, <<>>)
         ELSE WordsFrom(s, k + 1, Append(cur, s[k]))

Words(s) == WordsFrom(s, 1, <<>>)

\* getpass.getuser()
username == <<"u","s","r">>

\* Job names a caller passes to submit_job_list.
JobNames == { <<"j","o","b">>, <<"s","i","m">> }
\* Names of jobs of other batches of the same user.
ForeignNames == { <<"m","y","j","o","b">> }
\* The command lists a caller passes: n different command strings, the k-th
\* written k (the code never looks into a command, it only writes it out).
CommandLists == { [k \in 1..n |-> k] : n \in 0..MaxCmds }
\* Queue names given to the constructor ("" is the default queue).
QueueNames == { <<>>, <<"a","l","l",".","q">> }


\* ------------------------------------------------------- the grid engine
\* What os.environ holds for a variable when submit_job reads it: None (unset),
\* "" or a path.
None == <<"None">>
EnvPath == <<"/","o","p","t","/","e","n","v">>

Environments ==
    { [LD_LIBRARY_PATH |-> EnvPath, PATH |-> EnvPath, PYTHONPATH |-> EnvPath,
       CONDA_PREFIX |-> c] : c \in {EnvPath, <<>>, None} }
    \cup
    { [LD_LIBRARY_PATH |-> EnvPath, PATH |-> EnvPath, PYTHONPATH |-> None,
       CONDA_PREFIX |-> <<>>] }

\* The command lines the two queries build.
qstat_u == <<"q","s","t","a","t"," ","-","u"," ">>
opt_xml == <<" ","-","x","m","l"," ">>
opt_q   == <<"-","q"," ">>

\* get_jobs_in_queue: stat = "qstat -u " + username [+ "-q " + queue_name]
StatTotal(queue_name) ==
    LET stat == qstat_u \o username
    IN  IF queue_name # <<>> THEN stat \o opt_q \o queue_name ELSE stat

\* get_jobs_in_queue_name: stat = "qstat -u " + username + " -xml " [+ "-q " + ...]
StatByName(queue_name) ==
    LET stat == qstat_u \o username \o opt_xml
    IN  IF queue_name # <<>> THEN stat \o opt_q \o queue_name ELSE stat

\* The invocations under which qstat lists the jobs of `username`
\* (in `queue_name` when one is given).
QstatAccepts(argv, queue_name) ==
    LET base == << <<"q","s","t","a","t">>, <<"-","u">>, username >>
        x    == << <<"-","x","m","l">> >>
        q    == << <<"-","q">>, queue_name >>
    IN  \/ argv = base
        \/ argv = base \o x
        \/ queue_name # <<>> /\ argv = base \o q
        \/ queue_name # <<>> /\ argv = base \o x \o q

\* What os.popen(stat) can do: "ok" qstat ran and printed its listing; "failed"
\* the command could not be executed or qstat ended in an error, and stdout holds
\* no listing; "raise" popen itself raised (no process could be created).
PopenOutcomes(stat, queue_name) ==
    IF QstatAccepts(Words(stat), queue_name)
    THEN {"ok", "failed", "raise"}
    ELSE {"failed", "raise"}

MessageLine == <<"e","r","r","o","r">>
HeaderLine  == <<"j","o","b","-","I","D"," ","n","a","m","e">>
RuleLine    == <<"-","-","-","-">>

\* qstat's table: nothing for an empty queue, else two header rows and a row per job.
PlainTable(q) ==
    IF q = <<>> THEN <<>>
    ELSE <<HeaderLine, RuleLine>> \o [k \in 1..Len(q) |-> <<"1"," ">> \o q[k]]

\* qstat -xml: the enclosing job_info element and, per job, its name and owner.
XmlOpen  == <<"<","j","o","b","_","i","n","f","o",">">>
XmlClose == <<"<","/","j","o","b","_","i","n","f","o",">">>
XmlName(n)  == <<"<","J","B","_","n","a","m","e",">">> \o n
                 \o <<"<","/","J","B","_","n","a","m","e",">">>
XmlOwner    == <<"<","J","B","_","o","w","n","e","r",">">> \o username
                 \o <<"<","/","J","B","_","o","w","n","e","r",">">>

RECURSIVE XmlJobs(_)
XmlJobs(q) ==
    IF q = <<>> THEN <<>>
    ELSE <<XmlName(Head(q)), XmlOwner>> \o XmlJobs(Tail(q))

XmlTable(q) == <<XmlOpen>> \o XmlJobs(q) \o <<XmlClose>>

\* What a failed query leaves on stdout: nothing, or one line of complaint.
FailedOutputs == { <<>>, <<MessageLine>> }

\* f.readlines() of the popen'ed command: the lines it can return.
ReadLines(outcome, table) ==
    IF outcome = "ok" THEN { table } ELSE FailedOutputs

\* ------------------------------------------------------- QueueInspector
\* get_jobs_in_queue, lines 55-60: count the lines, drop the two header rows.
JobNumber(lines) ==
    LET job_number == Len(lines)
    IN  IF job_number > 0 THEN job_number - HeaderRows ELSE job_number

\* get_jobs_in_queue_name, lines 83-86: lines in which name_fragment is found.
RECURSIVE NameMatches(_, _)
NameMatches(lines, name_fragment) ==
    IF lines = <<>> THEN 0
    ELSE (IF Find(Head(lines), name_fragment) > -1 THEN 1 ELSE 0)
         + NameMatches(Tail(lines), name_fragment)


\* ------------------------------------------------------------------ state
VARIABLES
    self,            \* the SubmitSGE object: queue_name, verbose, extra_options,
                     \*   queue_update, maximum_jobs
    queue,           \* the engine's outstanding jobs of `username`, by name
    command_list,    \* arguments of the submit_job_list call in progress
    job_name,
    wait_for_completion,
    pc,              \* position of the controller
    i,               \* commands of command_list whose loop iteration has ended
    job_number,      \* local of submit_job_when_ready (0 outside a call)
    rows,            \* len(f.readlines()) of that call's latest get_jobs_in_queue
    script_exists,   \* whether ./submit_<job_name>.sh is on disk
    last_query,      \* outcome of the most recent os.popen
    slept,           \* seconds the controller's latest step spent in time.sleep
    stdout,          \* the line printed last
    polls,           \* job_number of each poll of the submit_job_when_ready call in
                     \*   progress (empty outside a call)
    admit_sleeps,    \* time.sleep(queue_update) calls of the call in progress
    qsub_calls,      \* every subprocess.call(["qsub", ...]) that returned
    drain_polls,     \* result of each get_jobs_in_queue_name of the drain loop
    drain_sleeps,    \* time.sleep(queue_update) calls of the drain loop
    drain_entries,   \* job entries holding job_name in the listing the latest drain
                     \*   poll read
    raised,          \* the exception that ended the call, "none" otherwise
    mutated,         \* whether the queue changed since the latest get_jobs_in_queue
                     \*   of the submit_job_when_ready call in progress
    inst,            \* SubmitSGE objects running side by side, each with the state
                     \*   of its submit_job_list call (none when one object runs)
    world            \* the queue each of their engines holds

single == << self, queue, command_list, job_name, wait_for_completion, pc, i,
             job_number, rows, script_exists, last_query, slept, stdout, polls,
             admit_sleeps, qsub_calls, drain_polls, drain_sleeps, drain_entries, raised,
             mutated >>

vars == << single, inst, world >>

RECURSIVE SeqsUpTo(_, _)
SeqsUpTo(S, n) ==
    IF n = 0 THEN { <<>> }
    ELSE SeqsUpTo(S, n - 1)
         \cup { Append(s, x) : s \in { t \in SeqsUpTo(S, n - 1) : Len(t) = n - 1 }, x \in S }

\* __init__, lines 32-36
Init ==
    /\ self \in [ queue_name : QueueNames, verbose : BOOLEAN, extra_options : { <<>> },
                  queue_update : { QueueUpdateDefault }, maximum_jobs : 0..MaxCeiling ]
    /\ queue \in SeqsUpTo(ForeignNames, MaxForeign)
    /\ command_list = <<>>
    /\ job_name = <<>>
    /\ wait_for_completion = FALSE
    /\ pc = "idle"
    /\ i = 0
    /\ job_number = 0
    /\ rows = 0
    /\ script_exists = FALSE
    /\ last_query = "none"
    /\ slept = 0
    /\ stdout = ""
    /\ polls = <<>>
    /\ admit_sleeps = 0
    /\ qsub_calls = <<>>
    /\ drain_polls = <<>>
    /\ drain_sleeps = 0
    /\ drain_entries = 0
    /\ raised = "none"
    /\ mutated = FALSE
    /\ inst = <<>>
    /\ world = <<>>


\* ------------------------------------------------------ AdmissionController
\* get_jobs_in_queue, lines 45-60, on the lines popen returned.
get_jobs_in_queue(lines) == JobNumber(lines)

\* get_jobs_in_queue_name, lines 71-91, on the lines popen returned.
get_jobs_in_queue_name(lines, name_fragment) == NameMatches(lines, name_fragment)

\* Reference value for the drain count: the job entries of a listing whose
\* rendered text (name and owner elements) holds the fragment; a failed query
\* lists no entry.
EntriesHolding(outcome, q, name_fragment) ==
    IF outcome # "ok" THEN 0
    ELSE Cardinality({ k \in 1..Len(q) :
                         \/ Find(XmlName(q[k]), name_fragment) > -1
                         \/ Find(XmlOwner, name_fragment) > -1 })

\* A slip in the comparison of line 162: admits at the ceiling.
HasRoomAtCeiling(n, maximum_jobs) == n <= maximum_jobs

\* line 162: if job_number < self.maximum_jobs
HasRoom(n, maximum_jobs) == n < maximum_jobs

\* A slip in the condition of line 186: stops waiting with one job left.
DrainContinuesAboveOne(n) == n > 1

\* line 186: while self.get_jobs_in_queue_name(job_name) > 0
DrainContinues(n) == n > 0

\* A slip in the loop of line 182: every iteration takes the first command.
CommandAtFirst(cl, k) == cl[1]

\* line 182: for command in command_list (k-th iteration, k from 1)
CommandAt(cl, k) == cl[k]

\* A retry loop around the submission: a command whose qsub failed is taken again.
NextIndexRetry(k, status) == IF status # 0 THEN k ELSE k + 1

\* lines 137 and 182: the status subprocess.call returns is dropped and the
\* for loop goes on to the next command.
NextIndex(k, status) == k + 1

\* submit_job, lines 107-121: the exception the script writing ends in, if any.
\* str + None is a TypeError; None.split is an AttributeError ("is not" lets
\* None through).
MaterializeError(env) ==
    IF \/ env.LD_LIBRARY_PATH = None
       \/ env.PATH = None
       \/ env.PYTHONPATH = None
    THEN "TypeError"
    ELSE IF env.CONDA_PREFIX # <<>> /\ env.CONDA_PREFIX = None
         THEN "AttributeError"
         ELSE "none"

\* print(...) under "if self.verbose"; the numbers printed are job_number's.
Say(line, keep) == IF self.verbose THEN line ELSE keep

\* An exception nobody catches: it unwinds submit_job_when_ready (its locals are
\* gone) and submit_job_list.
Raise(e) ==
    /\ pc' = "raised"
    /\ raised' = e
    /\ job_number' = 0
    /\ rows' = 0
    /\ polls' = <<>>
    /\ admit_sleeps' = 0

\* submit_job_list is called (line 170).
submit_job_list ==
    /\ UNCHANGED << inst, world >>
    /\ UNCHANGED mutated
    /\ pc = "idle"
    /\ \E cl \in CommandLists, name \in JobNames, w \in BOOLEAN :
          /\ command_list' = cl
          /\ job_name' = name
          /\ wait_for_completion' = w
    /\ pc' = "for"
    /\ UNCHANGED << self, queue, i, job_number, rows, script_exists, last_query,
                    slept, stdout, polls, admit_sleeps, qsub_calls, drain_polls,
                    drain_sleeps, drain_entries, raised >>

\* Lines 182-183 and 154-157: the for loop takes its next command and
\* submit_job_when_ready makes its first query, which it only reports.
submit_job_when_ready ==
    /\ UNCHANGED << inst, world >>
    /\ mutated' = FALSE
    /\ pc = "for"
    /\ i < Len(command_list)
    /\ slept' = 0
    /\ \E outcome \in PopenOutcomes(StatTotal(self.queue_name), self.queue_name) :
          /\ last_query' = outcome
          /\ IF outcome = "raise"
             THEN /\ Raise("OSError")
                  /\ UNCHANGED stdout
             ELSE \E lines \in ReadLines(outcome, PlainTable(queue)) :
                      /\ rows' = Len(lines)
                      /\ job_number' = get_jobs_in_queue(lines)
                      /\ polls' = << get_jobs_in_queue(lines) >>
                      /\ stdout' = Say("allowed jobs currently submitted", stdout)
                      /\ admit_sleeps' = 0
                      /\ pc' = "while"
                      /\ UNCHANGED raised
    /\ UNCHANGED << self, queue, command_list, job_name, wait_for_completion,
                    i, script_exists, qsub_calls, drain_polls,
                    drain_sleeps, drain_entries >>

\* Lines 159-168: one turn of the while loop up to the submission or the sleep.
AdmissionPoll ==
    /\ UNCHANGED << inst, world >>
    /\ mutated' = FALSE
    /\ pc = "while"
    /\ Len(polls) < MaxPolls
    /\ slept' = 0
    /\ \E outcome \in PopenOutcomes(StatTotal(self.queue_name), self.queue_name) :
          /\ last_query' = outcome
          /\ IF outcome = "raise"
             THEN /\ Raise("OSError")
                  /\ UNCHANGED stdout
             ELSE \E lines \in ReadLines(outcome, PlainTable(queue)) :
                      /\ rows' = Len(lines)
                      /\ job_number' = get_jobs_in_queue(lines)
                      /\ polls' = Append(polls, get_jobs_in_queue(lines))
                      /\ UNCHANGED << raised, admit_sleeps >>
                      /\ IF HasRoom(get_jobs_in_queue(lines), self.maximum_jobs)
                         THEN /\ stdout' = Say("Submitting Job", stdout)
                              /\ pc' = "submit"
                         ELSE /\ pc' = "admit_sleep"
                              /\ UNCHANGED stdout
    /\ UNCHANGED << self, queue, command_list, job_name, wait_for_completion,
                    i, script_exists, qsub_calls, drain_polls,
                    drain_sleeps, drain_entries >>

\* A slip in the loop of lines 159-168: after the sleep the job is submitted
\* without a new query.
AdmitSleepThenSubmit ==
    /\ UNCHANGED << inst, world >>
    /\ UNCHANGED mutated
    /\ pc = "admit_sleep"
    /\ slept' = self.queue_update
    /\ admit_sleeps' = admit_sleeps + 1
    /\ pc' = "submit"
    /\ UNCHANGED << self, queue, command_list, job_name, wait_for_completion,
                    i, job_number, rows, script_exists, last_query, stdout, polls,
                    qsub_calls, drain_polls, drain_sleeps, drain_entries, raised >>

\* Line 168: time.sleep(self.queue_update), then back to the top of the loop.
AdmitSleep ==
    /\ UNCHANGED << inst, world >>
    /\ UNCHANGED mutated
    /\ pc = "admit_sleep"
    /\ slept' = self.queue_update
    /\ admit_sleeps' = admit_sleeps + 1
    /\ pc' = "while"
    /\ UNCHANGED << self, queue, command_list, job_name, wait_for_completion,
                    i, job_number, rows, script_exists, last_query, stdout, polls, qsub_calls,
                    drain_polls, drain_sleeps, drain_entries, raised >>

\* What subprocess.call(["qsub", ...]) can do: return qsub's exit status (the job
\* is queued when it is 0), or raise because qsub could not be started.
QsubOutcomes == { "0", "1", "raise" }
\* os.remove(filename)
RemoveOutcomes == { "ok", "raise" }

\* submit_job, lines 104-141, and the return of submit_job_when_ready (line 166).
submit_job ==
    /\ UNCHANGED << inst, world >>
    /\ mutated' = FALSE
    /\ pc = "submit"
    /\ \E error \in { MaterializeError(environ) : environ \in Environments } :
          IF error # "none"
          THEN /\ script_exists' = TRUE
               /\ slept' = 0
               /\ Raise(error)
               /\ UNCHANGED << queue, qsub_calls, i >>
          ELSE \E qs \in QsubOutcomes :
                 IF qs = "raise"
                 THEN /\ script_exists' = TRUE
                      /\ slept' = 0
                      /\ Raise("OSError")
                      /\ UNCHANGED << queue, qsub_calls, i >>
                 ELSE LET status == IF qs = "0" THEN 0 ELSE 1
                      IN  /\ qsub_calls' = Append(qsub_calls,
                                 [index |-> i + 1,
                                  command |-> CommandAt(command_list, i + 1),
                                  job_name |-> job_name,
                                  status |-> status])
                          /\ queue' = IF status = 0 THEN Append(queue, job_name)
                                                    ELSE queue
                          /\ slept' = SubmitPause
                          /\ \E rm \in RemoveOutcomes :
                                IF rm = "raise"
                                THEN /\ script_exists' = TRUE
                                     /\ Raise("OSError")
                                     /\ UNCHANGED i
                                ELSE /\ script_exists' = FALSE
                                     /\ i' = NextIndex(i, status)
                                     /\ job_number' = 0
                                     /\ rows' = 0
                                     /\ polls' = <<>>
                                     /\ admit_sleeps' = 0
                                     /\ pc' = "for"
                                     /\ UNCHANGED raised
    /\ UNCHANGED << self, command_list, job_name, wait_for_completion,
                    last_query, stdout, drain_polls, drain_sleeps,
                    drain_entries >>

\* A shortcut at line 185: an empty command_list returns without waiting.
ForExitSkipsDrainWhenEmpty ==
    /\ UNCHANGED << inst, world >>
    /\ UNCHANGED mutated
    /\ pc = "for"
    /\ i >= Len(command_list)
    /\ slept' = 0
    /\ pc' = IF wait_for_completion /\ command_list # <<>> THEN "drain" ELSE "done"
    /\ UNCHANGED << self, queue, command_list, job_name, wait_for_completion,
                    i, job_number, rows, script_exists, last_query, stdout, polls,
                    admit_sleeps, qsub_calls, drain_polls, drain_sleeps, drain_entries, raised >>

\* A slip at line 185: the drain loop is entered whatever wait_for_completion is.
ForExitAlwaysDrains ==
    /\ UNCHANGED << inst, world >>
    /\ UNCHANGED mutated
    /\ pc = "for"
    /\ i >= Len(command_list)
    /\ slept' = 0
    /\ pc' = "drain"
    /\ UNCHANGED << self, queue, command_list, job_name, wait_for_completion,
                    i, job_number, rows, script_exists, last_query, stdout, polls,
                    admit_sleeps, qsub_calls, drain_polls, drain_sleeps, drain_entries, raised >>

\* A slip at lines 186-187: the drain loop sleeps before its first query.
ForExitSleepsFirst ==
    /\ UNCHANGED << inst, world >>
    /\ UNCHANGED mutated
    /\ pc = "for"
    /\ i >= Len(command_list)
    /\ slept' = IF wait_for_completion THEN self.queue_update ELSE 0
    /\ pc' = IF wait_for_completion THEN "drain" ELSE "done"
    /\ UNCHANGED << self, queue, command_list, job_name, wait_for_completion,
                    i, job_number, rows, script_exists, last_query, stdout, polls,
                    admit_sleeps, qsub_calls, drain_polls, drain_sleeps, drain_entries, raised >>

\* Lines 182 and 185: the command list is exhausted.
ForExit ==
    /\ UNCHANGED << inst, world >>
    /\ UNCHANGED mutated
    /\ pc = "for"
    /\ i >= Len(command_list)
    /\ slept' = 0
    /\ pc' = IF wait_for_completion THEN "drain" ELSE "done"
    /\ UNCHANGED << self, queue, command_list, job_name, wait_for_completion,
                    i, job_number, rows, script_exists, last_query, stdout, polls,
                    admit_sleeps, qsub_calls, drain_polls, drain_sleeps, drain_entries, raised >>

\* Line 186: one evaluation of the drain loop's condition.
DrainPoll ==
    /\ UNCHANGED << inst, world >>
    /\ UNCHANGED mutated
    /\ pc = "drain"
    /\ Len(drain_polls) < MaxDrainPolls
    /\ slept' = 0
    /\ \E outcome \in PopenOutcomes(StatByName(self.queue_name), self.queue_name) :
          /\ last_query' = outcome
          /\ IF outcome = "raise"
             THEN /\ Raise("OSError")
                  /\ UNCHANGED << stdout, drain_polls, drain_entries >>
             ELSE \E lines \in ReadLines(outcome, XmlTable(queue)) :
                      LET n == get_jobs_in_queue_name(lines, job_name)
                      IN  /\ drain_polls' = Append(drain_polls, n)
                          /\ drain_entries' = EntriesHolding(outcome, queue, job_name)
                          /\ stdout' = Say("Jobs containing string", stdout)
                          /\ pc' = IF DrainContinues(n) THEN "drain_sleep" ELSE "done"
                          /\ UNCHANGED << raised, job_number, rows, polls,
                                          admit_sleeps >>
    /\ UNCHANGED << self, queue, command_list, job_name, wait_for_completion,
                    i, script_exists, qsub_calls, drain_sleeps >>

\* A backoff at line 187: each sleep of the drain loop is longer than the last.
DrainSleepBackoff ==
    /\ UNCHANGED << inst, world >>
    /\ UNCHANGED mutated
    /\ pc = "drain_sleep"
    /\ slept' = self.queue_update * (drain_sleeps + 1)
    /\ drain_sleeps' = drain_sleeps + 1
    /\ pc' = "drain"
    /\ UNCHANGED << self, queue, command_list, job_name, wait_for_completion,
                    i, job_number, rows, script_exists, last_query, stdout, polls,
                    admit_sleeps, qsub_calls, drain_polls, drain_entries, raised >>

\* Line 187: time.sleep(self.queue_update)
DrainSleep ==
    /\ UNCHANGED << inst, world >>
    /\ UNCHANGED mutated
    /\ pc = "drain_sleep"
    /\ slept' = self.queue_update
    /\ drain_sleeps' = drain_sleeps + 1
    /\ pc' = "drain"
    /\ UNCHANGED << self, queue, command_list, job_name, wait_for_completion,
                    i, job_number, rows, script_exists, last_query, stdout, polls,
                    admit_sleeps, qsub_calls, drain_polls, drain_entries, raised >>

\* The engine: an outstanding job finishes and leaves the queue.
JobLeaves ==
    /\ UNCHANGED << inst, world >>
    /\ mutated' = (pc \in { "while", "admit_sleep" } \/ mutated)
    /\ pc \notin { "idle", "done", "raised" }
    /\ \E k \in 1..Len(queue) :
          queue' = SubSeq(queue, 1, k - 1) \o SubSeq(queue, k + 1, Len(queue))
    /\ UNCHANGED << self, command_list, job_name, wait_for_completion, pc, i,
                    job_number, rows, script_exists, last_query, slept, stdout, polls,
                    admit_sleeps, qsub_calls, drain_polls, drain_sleeps, drain_entries, raised >>

Next ==
    \/ submit_job_list
    \/ submit_job_when_ready
    \/ AdmissionPoll
    \/ AdmitSleep
    \/ submit_job
    \/ ForExit
    \/ DrainPoll
    \/ DrainSleep
    \/ JobLeaves

Spec == Init /\ [][Next]_vars


\* ------------------------------------------------- objects running side by side
\* The same code as above, as a function of the object's state r, the queue q it
\* submits to and the outcomes o of the external calls of the step, so that
\* several objects can run in one model.  r.did is the external operation the
\* object's latest step made.
Shown(verbose, line, keep) == IF verbose THEN line ELSE keep

\* The outcomes of the external calls of a step none of which fails.
NoFailure ==
    [ popen |-> "ok", output |-> <<>>, error |-> "none", qsub |-> "0", remove |-> "ok" ]

\* os.popen(stat) and what a failed command leaves on stdout.
QueryOutcomes(stat, queue_name) ==
    { [ NoFailure EXCEPT !.popen = x, !.output = f ] :
          x \in PopenOutcomes(stat, queue_name) \ { "failed" }, f \in { <<>> } }
    \cup
    { [ NoFailure EXCEPT !.popen = x, !.output = f ] :
          x \in PopenOutcomes(stat, queue_name) \cap { "failed" }, f \in FailedOutputs }

\* submit_job: os.environ, subprocess.call and os.remove; a call that is not
\* reached has no outcome of its own.
SubmitOutcomes ==
    { [ NoFailure EXCEPT !.error = MaterializeError(environ) ] :
          environ \in Environments }
    \cup { [ NoFailure EXCEPT !.qsub = x ] : x \in QsubOutcomes }
    \cup { [ NoFailure EXCEPT !.qsub = x, !.remove = "raise" ] :
             x \in QsubOutcomes \ { "raise" } }

\* f.readlines() under outcome o.
LinesRead(o, table) == IF o.popen = "ok" THEN table ELSE o.output

\* An exception nobody catches.
Raised(r, q, op) ==
    [ inst  |-> [ r EXCEPT !.pc = "raised", !.job_number = 0, !.did = op ],
      queue |-> q ]

\* A slip at lines 154-157: the first query is made only to be printed.
FirstQueryOnlyWhenVerbose(verbose) == verbose

\* Line 154 stands before "if self.verbose": the first query is always made.
FirstQueryMade(verbose) == TRUE

\* Lines 182-183 and 154-157.
submit_job_when_ready_of(r, q, o) ==
    IF ~FirstQueryMade(r.self.verbose)
    THEN [ inst |-> [ r EXCEPT !.pc = "while", !.did = "none" ], queue |-> q ]
    ELSE IF o.popen = "raise"
         THEN Raised([ r EXCEPT !.query = o.popen ], q, "popen")
         ELSE [ inst  |-> [ r EXCEPT
                    !.job_number = get_jobs_in_queue(LinesRead(o, PlainTable(q))),
                    !.query = o.popen,
                    !.stdout = Shown(r.self.verbose, "allowed jobs currently submitted",
                                     r.stdout),
                    !.pc = "while",
                    !.did = "popen" ],
                queue |-> q ]

\* Lines 159-168, up to the submission or the sleep.
AdmissionPoll_of(r, q, o) ==
    IF o.popen = "raise"
    THEN Raised([ r EXCEPT !.query = o.popen ], q, "popen")
    ELSE LET n == get_jobs_in_queue(LinesRead(o, PlainTable(q)))
         IN  [ inst  |-> [ r EXCEPT
                    !.job_number = n,
                    !.query = o.popen,
                    !.stdout = IF HasRoom(n, r.self.maximum_jobs)
                               THEN Shown(r.self.verbose, "Submitting Job", r.stdout)
                               ELSE r.stdout,
                    !.pc = IF HasRoom(n, r.self.maximum_jobs)
                           THEN "submit" ELSE "admit_sleep",
                    !.did = "popen" ],
               queue |-> q ]

\* Line 168.
AdmitSleep_of(r, q) ==
    [ inst |-> [ r EXCEPT !.pc = "while", !.did = "sleep" ], queue |-> q ]

\* submit_job, lines 104-141, and the return of submit_job_when_ready.
submit_job_of(r, q, o) ==
    IF o.error # "none" THEN Raised(r, q, "none")
    ELSE IF o.qsub = "raise" THEN Raised(r, q, "qsub")
    ELSE LET status == IF o.qsub = "0" THEN 0 ELSE 1
             queued == IF status = 0 THEN Append(q, r.job_name) ELSE q
         IN  IF o.remove = "raise" THEN Raised(r, queued, "qsub")
             ELSE [ inst  |-> [ r EXCEPT !.i = NextIndex(r.i, status),
                                         !.job_number = 0,
                                         !.pc = "for",
                                         !.did = "qsub" ],
                    queue |-> queued ]

\* Lines 182 and 185.
ForExit_of(r, q) ==
    [ inst  |-> [ r EXCEPT !.pc = IF r.wait_for_completion THEN "drain" ELSE "done",
                           !.did = "none" ],
      queue |-> q ]

\* Line 186.
DrainPoll_of(r, q, o) ==
    IF o.popen = "raise"
    THEN Raised([ r EXCEPT !.query = o.popen ], q, "popen")
    ELSE LET n == get_jobs_in_queue_name(LinesRead(o, XmlTable(q)), r.job_name)
         IN  [ inst  |-> [ r EXCEPT
                    !.query = o.popen,
                    !.stdout = Shown(r.self.verbose, "Jobs containing string", r.stdout),
                    !.pc = IF DrainContinues(n) THEN "drain_sleep" ELSE "done",
                    !.did = "popen" ],
               queue |-> q ]

\* Line 187.
DrainSleep_of(r, q) ==
    [ inst |-> [ r EXCEPT !.pc = "drain", !.did = "sleep" ], queue |-> q ]

\* The outcomes the external calls of the object's next step can have.
OutcomesAt(r) ==
    IF r.pc = "while" \/ (r.pc = "for" /\ r.i < Len(r.command_list))
    THEN QueryOutcomes(StatTotal(r.self.queue_name), r.self.queue_name)
    ELSE IF r.pc = "drain"
    THEN QueryOutcomes(StatByName(r.self.queue_name), r.self.queue_name)
    ELSE IF r.pc = "submit" THEN SubmitOutcomes
    ELSE { NoFailure }

\* The object's next step.
StepOf(r, q, o) ==
    IF r.pc = "for"
    THEN (IF r.i < Len(r.command_list) THEN submit_job_when_ready_of(r, q, o)
                                       ELSE ForExit_of(r, q))
    ELSE IF r.pc = "while" THEN AdmissionPoll_of(r, q, o)
    ELSE IF r.pc = "admit_sleep" THEN AdmitSleep_of(r, q)
    ELSE IF r.pc = "submit" THEN submit_job_of(r, q, o)
    ELSE IF r.pc = "drain" THEN DrainPoll_of(r, q, o)
    ELSE DrainSleep_of(r, q)

Running(r) == r.pc \notin { "done", "raised" }

\* submit_job_list(cl, name, w) has just been called on an object built with s,
\* which submits to queue `on`.
Called(s, cl, name, w, on) ==
    [ self |-> s, command_list |-> cl, job_name |-> name, wait_for_completion |-> w,
      on |-> on, pc |-> "for", i |-> 0, job_number |-> 0, query |-> "none",
      did |-> "none", stdout |-> "" ]

\* No call is made on the single object of the first specification.
NoSingleCall ==
    /\ self = [ queue_name |-> <<>>, verbose |-> FALSE, extra_options |-> <<>>,
                queue_update |-> QueueUpdateDefault, maximum_jobs |-> 0 ]
    /\ queue = <<>>
    /\ command_list = <<>>
    /\ job_name = <<>>
    /\ wait_for_completion = FALSE
    /\ pc = "idle"
    /\ i = 0
    /\ job_number = 0
    /\ rows = 0
    /\ script_exists = FALSE
    /\ last_query = "none"
    /\ slept = 0
    /\ stdout = ""
    /\ polls = <<>>
    /\ admit_sleeps = 0
    /\ qsub_calls = <<>>
    /\ drain_polls = <<>>
    /\ drain_sleeps = 0
    /\ drain_entries = 0
    /\ raised = "none"
    /\ mutated = FALSE

\* Object c takes its next step, the external calls ending as one of `allowed`.
Controller(c, allowed) ==
    /\ Running(inst[c])
    /\ \E o \in OutcomesAt(inst[c]) \cap allowed :
          LET after == StepOf(inst[c], world[inst[c].on], o)
          IN  /\ inst' = [ inst EXCEPT ![c] = after.inst ]
              /\ world' = [ world EXCEPT ![inst[c].on] = after.queue ]
    /\ UNCHANGED single

\* A job of queue w finishes while an object submitting to w is running.
JobLeavesQueue(w) ==
    /\ \E c \in DOMAIN inst : inst[c].on = w /\ Running(inst[c])
    /\ \E k \in 1..Len(world[w]) :
          world' = [ world EXCEPT ![w] = SubSeq(world[w], 1, k - 1)
                                          \o SubSeq(world[w], k + 1, Len(world[w])) ]
    /\ UNCHANGED << single, inst >>

\* Every outcome the external calls can have.
Outcomes ==
    [ popen : { "ok", "failed", "raise" }, output : FailedOutputs,
      error : { "none", "TypeError", "AttributeError" },
      qsub : QsubOutcomes, remove : RemoveOutcomes ]

\* The arguments of __init__ (lines 16-36).
Configurations(queue_names, verboses, ceilings) ==
    [ queue_name : queue_names, verbose : verboses, extra_options : { <<>> },
      queue_update : { QueueUpdateDefault }, maximum_jobs : ceilings ]

\* ---- two objects of the same configuration submitting to one queue
Controllers == { 1, 2 }

MultiInit ==
    /\ NoSingleCall
    /\ inst \in { [ c \in Controllers |-> Called(s, cls[c], name, FALSE, 1) ] :
                    s \in Configurations(QueueNames, { FALSE }, 0..MaxCeiling),
                    cls \in [ Controllers -> CommandLists ],
                    name \in { <<"s","i","m">> } }
    /\ world \in { << q >> : q \in SeqsUpTo(ForeignNames, MaxForeign) }

MultiController == \E c \in Controllers : Controller(c, Outcomes)

MultiJobLeaves == JobLeavesQueue(1)

MultiNext == MultiController \/ MultiJobLeaves

SpecMulti == MultiInit /\ [][MultiNext]_vars

\* ---- one object, no failing external call, jobs that finish
LiveInit ==
    /\ NoSingleCall
    /\ inst \in { << Called(s, cl, name, TRUE, 1) >> :
                    s \in Configurations({ <<>> }, BOOLEAN, 1..MaxCeiling),
                    cl \in CommandLists,
                    name \in JobNames }
    /\ world \in { << q >> : q \in SeqsUpTo(ForeignNames, MaxForeign) }

LiveController == Controller(1, { NoFailure })

LiveJobLeaves == JobLeavesQueue(1)

LiveNext == LiveController \/ LiveJobLeaves

\* The object is a running sequential program, and every job finishes.
SpecLive ==
    LiveInit /\ [][LiveNext]_vars /\ WF_vars(LiveController) /\ WF_vars(LiveJobLeaves)

\* ---- two objects that differ in verbose only, each with its own engine, the
\* ---- two engines behaving alike
PairInit ==
    /\ NoSingleCall
    /\ \E s \in Configurations(QueueNames, { TRUE }, 0..MaxCeiling),
          cl \in CommandLists, name \in JobNames, w \in BOOLEAN :
          inst = << Called(s, cl, name, w, 1),
                    Called([ s EXCEPT !.verbose = FALSE ], cl, name, w, 2) >>
    /\ \E q \in SeqsUpTo(ForeignNames, MaxForeign) : world = << q, q >>

\* Both objects take their next step, their external calls ending alike.
PairController ==
    /\ Running(inst[1])
    /\ \E o \in OutcomesAt(inst[1]) :
          LET a == StepOf(inst[1], world[1], o)
              b == IF Running(inst[2]) THEN StepOf(inst[2], world[2], o)
                   ELSE [ inst |-> inst[2], queue |-> world[2] ]
          IN  /\ inst' = << a.inst, b.inst >>
              /\ world' = << a.queue, b.queue >>
    /\ UNCHANGED single

\* The same job finishes in both engines.
PairJobLeaves ==
    /\ Running(inst[1])
    /\ \E k \in 1..Len(world[1]) :
          world' = [ w \in { 1, 2 } |->
                       IF k > Len(world[w]) THEN world[w]
                       ELSE SubSeq(world[w], 1, k - 1)
                               \o SubSeq(world[w], k + 1, Len(world[w])) ]
    /\ UNCHANGED << single, inst >>

PairNext == PairController \/ PairJobLeaves

SpecPair == PairInit /\ [][PairNext]_vars


\* ------------------------------------------------------------------ claims
InCall == pc \in { "while", "admit_sleep", "submit" }

\* C1: a job is handed to qsub only by a step taken right after a poll that
\* returned less than maximum_jobs; a poll that returned maximum_jobs or more is
\* followed by the sleep and a new poll, with no submission in between.
C1_SubmitOnlyBelowCeiling ==
    [][ /\ (qsub_calls' # qsub_calls) =>
              /\ pc = "submit"
              /\ job_number = Last(polls)
              /\ job_number < self.maximum_jobs
        /\ (pc = "while" /\ pc' \in { "submit", "admit_sleep" }) =>
              /\ (pc' = "submit") = (Last(polls') < self.maximum_jobs)
              /\ qsub_calls' = qsub_calls
        /\ (pc = "admit_sleep" /\ pc' # pc) =>
              /\ pc' = "while"
              /\ slept' = self.queue_update
              /\ qsub_calls' = qsub_calls ]_vars

\* C1 witness: after one job was submitted, a poll was rejected and slept on,
\* and the next poll, below the ceiling, admits the second job.
C1_Witness ==
    /\ pc = "submit"
    /\ Len(qsub_calls) = 1
    /\ admit_sleeps >= 1
    /\ last_query = "ok"
    /\ polls[Len(polls) - 1] >= self.maximum_jobs
    /\ Last(polls) < self.maximum_jobs

\* Position (from 1) of the first value below n among s[from..], 0 when none.
FirstBelow(s, from, n) ==
    LET hits == { k \in from..Len(s) : s[k] < n }
    IN  IF hits = {} THEN 0 ELSE CHOOSE k \in hits : \A m \in hits : k <= m

\* C2 as stated: with maximum_jobs >= 1 the call decides on the first polled
\* value below maximum_jobs, c_k, every polled value being used for the decision
\* (k polls rejected before it, k sleeps), and submits once.
C2_DecidesOnFirstValueBelow ==
    (self.maximum_jobs >= 1 /\ pc = "submit") =>
        /\ FirstBelow(polls, 1, self.maximum_jobs) = Len(polls)
        /\ admit_sleeps = Len(polls) - 1
        /\ Len(qsub_calls) = i

\* C2 amended: the value of the call's first poll is only reported; with
\* maximum_jobs >= 1 the call decides on the first value below maximum_jobs among
\* the polls after the first, every one of those before it having been rejected
\* and followed by one sleep, and it submits once.
C2_DecidesOnFirstValueBelowAfterFirstPoll ==
    (self.maximum_jobs >= 1) =>
        /\ InCall =>
              /\ Len(polls) >= 1
              /\ Len(qsub_calls) = i
              /\ \A k \in 2..(Len(polls) - 1) : polls[k] >= self.maximum_jobs
        /\ pc = "submit" =>
              /\ FirstBelow(polls, 2, self.maximum_jobs) = Len(polls)
              /\ admit_sleeps = Len(polls) - 2
        /\ pc = "admit_sleep" =>
              /\ FirstBelow(polls, 2, self.maximum_jobs) = 0
              /\ Len(polls) >= 2
              /\ admit_sleeps = Len(polls) - 2
        /\ pc = "while" =>
              /\ FirstBelow(polls, 2, self.maximum_jobs) = 0
              /\ admit_sleeps = Len(polls) - 1
        /\ pc = "for" => Len(qsub_calls) = i

\* C2 witness: a first poll below the ceiling that was not acted on, a rejected
\* poll, a sleep, and the poll the submission is decided on.
C2_Witness ==
    /\ self.maximum_jobs >= 1
    /\ pc = "submit"
    /\ Len(polls) = 3
    /\ polls[1] < self.maximum_jobs
    /\ polls[2] >= self.maximum_jobs
    /\ admit_sleeps = 1

\* C3: with maximum_jobs = 0 no job is ever submitted and
\* submit_job_when_ready never returns, whatever the listings hold.
C3_ZeroCeilingNeverSubmits ==
    (self.maximum_jobs = 0) =>
        /\ qsub_calls = <<>>
        /\ pc # "submit"
        /\ i = 0


Draining == pc \in { "drain", "drain_sleep" }

\* C4: the batch hands its commands to qsub in input order, all under the
\* caller's job_name, one at a time: the polling for a command starts only when
\* every earlier command's submission has returned, and once the loop over the
\* commands has ended there were exactly Len(command_list) submissions.
C4_BatchInOrder ==
    /\ Len(qsub_calls) <= Len(command_list)
    /\ \A k \in 1..Len(qsub_calls) :
          /\ qsub_calls[k].command = command_list[k]
          /\ qsub_calls[k].job_name = job_name
    /\ InCall => Len(qsub_calls) = i
    /\ (Draining \/ pc = "done") => Len(qsub_calls) = Len(command_list)

\* C4 witness: a batch of two different commands, both submitted, has returned.
C4_Witness ==
    /\ pc = "done"
    /\ Len(command_list) = 2
    /\ command_list[1] # command_list[2]
    /\ Len(qsub_calls) = 2

\* C5: with wait_for_completion the batch returns only on a drain poll that
\* returned 0; every earlier drain poll returned more than 0 and was followed by
\* exactly one sleep of queue_update seconds, and no poll follows the 0.
C5_DrainUntilZero ==
    /\ \A k \in 1..(Len(drain_polls) - 1) : drain_polls[k] > 0
    /\ (drain_polls # <<>> /\ pc # "raised") => wait_for_completion
    /\ (pc = "done" /\ wait_for_completion) =>
          /\ drain_polls # <<>>
          /\ Last(drain_polls) = 0
          /\ drain_sleeps = Len(drain_polls) - 1
    /\ pc = "drain_sleep" =>
          /\ Last(drain_polls) > 0
          /\ drain_sleeps = Len(drain_polls) - 1
    /\ pc = "drain" =>
          /\ drain_sleeps = Len(drain_polls)
          /\ drain_sleeps > 0 => slept = self.queue_update

\* C5 witness: the drain polls returned 2, 1 and 0, and the batch has returned.
C5_Witness ==
    /\ pc = "done"
    /\ wait_for_completion
    /\ drain_polls = << 2, 1, 0 >>
    /\ drain_sleeps = 2

\* C6: a qsub that reports a non-zero status ends the batch in an error: it is
\* the last submission and the drain phase is not entered.
C6_FailedSubmissionStopsBatch ==
    \A k \in 1..Len(qsub_calls) :
        qsub_calls[k].status # 0 => (pc = "raised" /\ k = Len(qsub_calls))

\* C7: a query that could not be executed or read ends the call in an error; its
\* result is never used as a count, neither to admit a job nor to end the drain.
C7_FailedQueryNeverCounts ==
    /\ last_query \in { "failed", "raise" } => pc = "raised"
    /\ pc = "submit" => last_query = "ok"
    /\ (pc = "done" /\ wait_for_completion) => last_query = "ok"

\* C8: get_jobs_in_queue returns max(0, rows - 2) for a listing of `rows` lines,
\* never a negative number.
C8_CountTotalFloorsAtZero ==
    InCall =>
        /\ job_number >= 0
        /\ job_number = (IF rows > HeaderRows THEN rows - HeaderRows ELSE 0)

\* C9: no command of the batch is handed to qsub more than once, whatever the
\* submission's outcome.
C9_AtMostOneAttempt ==
    /\ Len(qsub_calls) <= Len(command_list)
    /\ \A a, b \in 1..Len(qsub_calls) :
          qsub_calls[a].index = qsub_calls[b].index => a = b

\* C9 witness: the first command's qsub reported a failure and the batch went on
\* to its second command.
C9_Witness ==
    /\ Len(qsub_calls) = 2
    /\ qsub_calls[1].status # 0
    /\ qsub_calls[2].index = 2

\* C10: get_jobs_in_queue_name returns the number of job entries of the listing
\* whose text holds the fragment; no other line of the listing counts.
C10_CountsJobEntries ==
    (drain_polls # <<>> /\ pc \in { "drain_sleep", "done" }) =>
        Last(drain_polls) = drain_entries

\* C11: a batch with an empty command_list makes no queue query for admission
\* and no submission; without wait_for_completion it returns with no query at
\* all, and with it the drain loop still polls at least once and the batch
\* returns only on a drain poll that returned 0.
C11_EmptyBatch ==
    (command_list = <<>> /\ pc # "idle") =>
        /\ pc \in { "for", "drain", "drain_sleep", "done", "raised" }
        /\ qsub_calls = <<>>
        /\ polls = <<>>
        /\ i = 0
        /\ ~script_exists
        /\ (last_query # "none") =>
              /\ wait_for_completion
              /\ pc # "for"
              /\ (drain_polls # <<>> \/ pc = "raised")
        /\ (pc = "done" /\ ~wait_for_completion) =>
              /\ last_query = "none"
              /\ drain_polls = <<>>
        /\ (pc = "done" /\ wait_for_completion) =>
              /\ drain_polls # <<>>
              /\ Last(drain_polls) = 0
              /\ \A k \in 1..(Len(drain_polls) - 1) : drain_polls[k] > 0

\* C11 witness: an empty batch that waits has returned on its first drain poll,
\* which returned 0 while jobs of another name were outstanding.
C11_Witness ==
    /\ command_list = <<>>
    /\ wait_for_completion
    /\ pc = "done"
    /\ drain_polls = << 0 >>
    /\ last_query = "ok"
    /\ queue # <<>>

\* C13: the two queries only read: a step that makes one leaves the queue and
\* the object's configuration as they were; and a get_jobs_in_queue call made
\* with the queue as the previous call of the same submit_job_when_ready found
\* it returns the value that call returned.
C13_QueriesArePureReads ==
    [][ /\ ((polls' # polls /\ polls' # <<>>) \/ drain_polls' # drain_polls) =>
              /\ queue' = queue
              /\ self' = self
        /\ (pc = "while" /\ ~mutated /\ Len(polls') = Len(polls) + 1) =>
              Last(polls') = Last(polls) ]_vars

\* C14: the batch is done only with every command handed to qsub and, when it
\* waits, with a last drain poll of 0; the drain loop is entered only from the
\* exhausted for loop of a waiting batch, nothing is submitted while it runs, and
\* a batch that does not wait never calls get_jobs_in_queue_name.
C14_BatchStateMachine ==
    [][ /\ (pc' = "done") =>
              /\ i' = Len(command_list')
              /\ Len(qsub_calls') = Len(command_list')
              /\ wait_for_completion' => (drain_polls' # <<>> /\ Last(drain_polls') = 0)
        /\ (pc' \in { "drain", "drain_sleep" }) =>
              /\ wait_for_completion'
              /\ i' = Len(command_list')
              /\ Len(qsub_calls') = Len(command_list')
        /\ (pc' = "drain" /\ pc \notin { "drain", "drain_sleep" }) =>
              /\ pc = "for"
              /\ drain_polls = <<>>
        /\ (pc \in { "drain", "drain_sleep" }) =>
              /\ qsub_calls' = qsub_calls
              /\ Len(queue') <= Len(queue)
              /\ pc' \in { "drain", "drain_sleep", "done", "raised" }
        /\ (~wait_for_completion') => drain_polls' = <<>> ]_vars

\* C14 witness: a waiting batch of two commands is done after the drain loop
\* polled more than once.
C14_Witness ==
    /\ pc = "done"
    /\ wait_for_completion
    /\ Len(qsub_calls) = 2
    /\ Len(drain_polls) >= 2
    /\ qsub_calls[2].status = 0

\* C15 as stated: the controller's latest step slept only if it was the sleep
\* after a rejected admission poll or the sleep after a drain poll above 0.
C15_SleepsOnlyInLoops ==
    (slept # 0) =>
        \/ pc = "while" /\ admit_sleeps >= 1
        \/ pc = "drain" /\ drain_sleeps >= 1

\* C15 amended: the controller sleeps at three points: queue_update seconds after
\* a rejected admission poll, queue_update seconds after a drain poll above 0,
\* and SubmitPause seconds in submit_job once qsub has returned; no other step
\* sleeps.
C15_SleepsInLoopsAndAfterQsub ==
    /\ pc \in { "idle", "admit_sleep", "submit", "drain_sleep", "done" } => slept = 0
    /\ pc = "while" =>
          /\ slept = (IF admit_sleeps >= 1 THEN self.queue_update ELSE 0)
          /\ admit_sleeps >= 1 => ~HasRoom(Last(polls), self.maximum_jobs)
    /\ pc = "drain" =>
          /\ slept = (IF drain_sleeps >= 1 THEN self.queue_update ELSE 0)
          /\ drain_sleeps >= 1 => Last(drain_polls) > 0
    /\ pc = "for" =>
          /\ slept = (IF i >= 1 THEN SubmitPause ELSE 0)
          /\ Len(qsub_calls) = i
    /\ pc = "raised" =>
          /\ slept \in { 0, SubmitPause }
          /\ (slept = SubmitPause) = (Len(qsub_calls) = i + 1)

\* C15 witness: submit_job has just returned from a qsub that queued the job,
\* having slept SubmitPause seconds.
C15_Witness ==
    /\ pc = "for"
    /\ slept = SubmitPause
    /\ Len(qsub_calls) = 1
    /\ qsub_calls[1].status = 0
    /\ ~script_exists

\* C16: queue_update never changes; each wait of the admission loop and of the
\* drain loop is one sleep of queue_update seconds, and the step after it is a
\* new query: no second sleep and no decision comes before that query, and a
\* submission is decided on the value just read.
C16_FixedIntervalThenFreshPoll ==
    [][ /\ self' = self
        /\ (pc = "admit_sleep" /\ pc' # pc) =>
              /\ pc' = "while"
              /\ slept' = self.queue_update
              /\ admit_sleeps' = admit_sleeps + 1
              /\ polls' = polls
        /\ (pc = "while" /\ pc' # pc) =>
              \/ pc' = "raised"
              \/ /\ pc' \in { "submit", "admit_sleep" }
                 /\ Len(polls') = Len(polls) + 1
                 /\ job_number' = Last(polls')
                 /\ admit_sleeps' = admit_sleeps
                 /\ slept' = 0
        /\ (pc' = "submit" /\ pc # "submit") =>
              /\ pc = "while"
              /\ Last(polls') < self.maximum_jobs
        /\ (pc = "drain_sleep" /\ pc' # pc) =>
              /\ pc' = "drain"
              /\ slept' = self.queue_update
              /\ drain_sleeps' = drain_sleeps + 1
              /\ drain_polls' = drain_polls
        /\ (pc = "drain" /\ pc' # pc) =>
              \/ pc' = "raised"
              \/ /\ pc' \in { "drain_sleep", "done" }
                 /\ Len(drain_polls') = Len(drain_polls) + 1
                 /\ (pc' = "done") = (Last(drain_polls') = 0)
                 /\ drain_sleeps' = drain_sleeps
                 /\ slept' = 0 ]_vars

\* C16 witness: the drain loop is back at its query after its second sleep of
\* queue_update seconds.
C16_Witness ==
    /\ pc = "drain"
    /\ drain_sleeps = 2
    /\ Len(drain_polls) = 2
    /\ slept = self.queue_update

\* C17: an os.remove that fails after qsub returned does not end the call in an
\* exception: whenever a qsub call has returned for a command, the batch is not
\* ended by an exception before that command's loop iteration has ended.
C17_CleanupFailureNonFatal ==
    (Len(qsub_calls) > i) => (pc # "raised" /\ raised = "none")

\* C18: with maximum_jobs >= 1 and no more than maximum_jobs jobs outstanding
\* at the start, the queue never holds more than maximum_jobs jobs.
C18_QueueWithinCeiling ==
    (self.maximum_jobs >= 1 /\ MaxForeign <= self.maximum_jobs) =>
        Len(queue) <= self.maximum_jobs

\* C12: objects sharing one queue each hand a job to qsub only on a count of
\* their own below maximum_jobs, and nothing else holds them back: the counts
\* are not coordinated, so the queue can exceed maximum_jobs (C12_Witness).
C12_EachAdmitsOnItsOwnCount ==
    \A c \in Controllers :
        /\ inst[c].pc = "submit" =>
              /\ inst[c].job_number < inst[c].self.maximum_jobs
              /\ inst[c].query # "raise"
        /\ inst[c].pc = "admit_sleep" =>
              inst[c].job_number >= inst[c].self.maximum_jobs

\* C12 witness: maximum_jobs is 2 and one job is outstanding; both objects read
\* a count of 1 from queries that succeeded, both submitted their first job, and
\* the queue holds 3 jobs.
C12_Witness ==
    /\ \A c \in Controllers :
          /\ inst[c].self.maximum_jobs = 2
          /\ inst[c].i = 1
          /\ inst[c].pc = "for"
          /\ inst[c].query = "ok"
          /\ inst[c].did = "qsub"
    /\ Len(world[1]) = 3

\* C19: with maximum_jobs >= 1, jobs that finish, no other submitter and no
\* failing query or submission, a batch that waits for completion is eventually
\* done.
C19_EventuallyDone == <>(inst[1].pc = "done")

\* C20: two objects that differ in verbose only and meet the same engine
\* behaviour are, after every step, at the same position with the same counts and
\* queue, their latest steps having made the same external operation; only what
\* was printed differs, the object without verbose having printed nothing.
C20_VerboseOnlyPrints ==
    /\ world[1] = world[2]
    /\ inst[2] = [ inst[1] EXCEPT !.self.verbose = FALSE, !.on = 2, !.stdout = "" ]

\* C20 witness: both objects have returned from a waiting batch of two commands,
\* the verbose one having printed the drain count.
C20_Witness ==
    /\ inst[1].pc = "done"
    /\ inst[2].pc = "done"
    /\ inst[1].i = 2
    /\ inst[1].wait_for_completion
    /\ inst[1].stdout = "Jobs containing string"
    /\ inst[2].stdout = ""

====
